---- MODULE Spec2Model ----
(***************************************************************************)
(* Session lifecycle of the backend (lib/session): the cache-store keys    *)
(* session:{id}, refreshToken:{id}, role:{r}:sessions, user:{u}:sessions,  *)
(* workspace:{w}:sessions, session:role, session:user, session:workspace,  *)
(* and the handlers that read and write them.  Every handler is one        *)
(* action: the sequence of its store round-trips run without interleaving. *)
(***************************************************************************)
EXTENDS Integers, Sequences, FiniteSets, TLC

\* ------------------------------------------------------------------ bounds
MaxSessions == 2
MaxTokens == 2
MaxDbChanges == 1
MaxEvents == 1
MaxErrors == 1
MaxProcs == 2

\* ------------------------------------------------------------------ values
Ids == 1..MaxSessions
NoId == 0
Users == {"u1", "u2"}
Workspaces == {"w1", "w2"}
Roles == {"r1", "r2"}
Empty == ""
NoRole == "none"
PermSets == {<<"read">>, <<"read", "write">>}
RoleKeys == Roles \cup {Empty}
WorkspaceKeys == Workspaces \cup {Empty}

\* The value of session:{id}: the fields of SessionData the handlers read.
\* baseType, subscriptionStatus and subscriptionPlan are copied from the role
\* and workspace records and no handler reads them back.
SessionData == [workspaceId : WorkspaceKeys, userId : Users,
                roleId : RoleKeys, permissions : PermSets \cup {<<>>}]
Absent == [absent |-> TRUE]

\* Faults of the durable-store lookups of loadSessionData: a record that is
\* missing (findOne resolves to null) or a lookup that raises.
LoadFaults == {"none", "settingsMissing", "workspaceMissing", "roleMissing",
               "raiseSettings", "raiseMembership", "raiseWorkspace", "raiseRole"}
\* One fault for each distinct way a reload comes out: raiseSettings and
\* raiseMembership leave the same three nulls as settingsMissing, raiseRole
\* the same null role as roleMissing.
ReloadFaults == {"none", "settingsMissing", "workspaceMissing", "roleMissing",
                 "raiseWorkspace"}

VARIABLES store, db, dbChanges, events, errors, socket, issued, consumed, nextId, owner, last,
          procs

vars == <<store, db, dbChanges, events, errors, socket, issued, consumed, nextId, owner, last,
          procs>>

\* ------------------------------------------------------------ cache store
\* redis primitives, each one round-trip, on the record of all keys.
Exists(v) == v # Absent
\* SET key value EX ttl also restarts the key's expiry: ttlLast[id] names the
\* key of id whose 60-day expiry was started last, so the other lapses first.
RedisSetSession(st, id, data) ==
  [st EXCEPT !.session[id] = data, !.ttlLast[id] = "session"]
RedisExpireSession(st, id) ==
  IF Exists(st.session[id]) THEN [st EXCEPT !.ttlLast[id] = "session"] ELSE st
RedisDelSession(st, id) == [st EXCEPT !.session[id] = Absent]
RedisSetRefreshToken(st, id, n) ==
  [st EXCEPT !.refreshToken[id] = n, !.ttlLast[id] = "refreshToken"]
RedisDelRefreshToken(st, id) == [st EXCEPT !.refreshToken[id] = 0]
SaddRole(st, r, id) == [st EXCEPT !.roleSessions[r] = @ \cup {id}]
SaddUser(st, u, id) == [st EXCEPT !.userSessions[u] = @ \cup {id}]
SaddWorkspace(st, w, id) == [st EXCEPT !.workspaceSessions[w] = @ \cup {id}]
SremRole(st, r, id) == [st EXCEPT !.roleSessions[r] = @ \ {id}]
SremUser(st, u, id) == [st EXCEPT !.userSessions[u] = @ \ {id}]
SremWorkspace(st, w, id) == [st EXCEPT !.workspaceSessions[w] = @ \ {id}]
HsetRole(st, id, r) == [st EXCEPT !.sessionRole[id] = r]
HsetUser(st, id, u) == [st EXCEPT !.sessionUser[id] = u]
HsetWorkspace(st, id, w) == [st EXCEPT !.sessionWorkspace[id] = w]
HdelRole(st, id) == [st EXCEPT !.sessionRole[id] = NoRole]
HdelUser(st, id) == [st EXCEPT !.sessionUser[id] = NoRole]
HdelWorkspace(st, id) == [st EXCEPT !.sessionWorkspace[id] = NoRole]

EmptyStore ==
  [session |-> [i \in Ids |-> Absent],
   refreshToken |-> [i \in Ids |-> 0],
   roleSessions |-> [r \in RoleKeys |-> {}],
   userSessions |-> [u \in Users |-> {}],
   workspaceSessions |-> [w \in WorkspaceKeys |-> {}],
   sessionRole |-> [i \in Ids |-> NoRole],
   sessionUser |-> [i \in Ids |-> NoRole],
   sessionWorkspace |-> [i \in Ids |-> NoRole],
   ttlLast |-> [i \in Ids |-> "session"]]

\* ---------------------------------------------------------- session loader
\* A loadSessionData that reports the workspace when its record resolved,
\* whether or not the membership did.
loadSessionDataWorkspaceOnly(d, userId, fault) ==
  LET settingsFound == fault \notin {"settingsMissing", "raiseSettings"}
      cur == d.cur[userId]
      membershipFound == /\ settingsFound
                         /\ fault # "raiseMembership"
                         /\ d.mem[userId][cur] # NoRole
      workspaceFound == /\ settingsFound
                        /\ fault \notin {"raiseMembership", "raiseWorkspace",
                                         "workspaceMissing"}
      roleFound == /\ membershipFound
                   /\ fault \notin {"raiseWorkspace", "raiseRole", "roleMissing"}
      role == d.mem[userId][cur]
  IN [workspaceId |-> IF workspaceFound THEN cur ELSE Empty,
      userId |-> userId,
      roleId |-> IF roleFound THEN role ELSE Empty,
      permissions |-> IF roleFound THEN d.perms[role] ELSE <<>>]
loadSessionData(d, userId, fault) ==
  LET settingsFound == fault \notin {"settingsMissing", "raiseSettings"}
      cur == d.cur[userId]
      membershipFound == /\ settingsFound
                         /\ fault # "raiseMembership"
                         /\ d.mem[userId][cur] # NoRole
      workspaceFound == /\ settingsFound
                        /\ fault \notin {"raiseMembership", "raiseWorkspace",
                                         "workspaceMissing"}
      roleFound == /\ membershipFound
                   /\ fault \notin {"raiseWorkspace", "raiseRole", "roleMissing"}
      role == d.mem[userId][cur]
  IN [workspaceId |-> IF workspaceFound /\ membershipFound THEN cur ELSE Empty,
      userId |-> userId,
      roleId |-> IF roleFound THEN role ELSE Empty,
      permissions |-> IF roleFound THEN d.perms[role] ELSE <<>>]

\* ------------------------------------------------------------ token issuer
\* A credential as a request presents it in one of the two cookies: none,
\* or a token that was issued for session sid as the n-th pair, which
\* unsignCookie / jwt.verify accept ("valid") or reject.
\* A cookie that is missing, tampered with or expired is rejected before its
\* payload is read, so only a valid one carries a session identifier here.
MissingCred == [status |-> "missing", sid |-> NoId, n |-> 0]
Creds ==
  {[status |-> s, sid |-> NoId, n |-> 0] : s \in {"missing", "tampered", "expired"}}
  \cup {[status |-> "valid", sid |-> issued[n], n |-> n] : n \in 1..Len(issued)}

\* getSessionId returns the identifier cached on the socket before it reads the
\* cookie, so what the request presents matters only on a socket without one.
Presented(sock) == IF sock # NoId THEN {MissingCred} ELSE Creds

\* getSessionId: the result and the new value of ctx.req.socket.sessionId.
getSessionId(sock, st, tokenType, cred) ==
  IF sock # NoId
    THEN [sessionId |-> sock, socket |-> sock]
    ELSE IF cred.status # "valid"
      THEN [sessionId |-> NoId, socket |-> sock]
      ELSE IF tokenType = "refreshToken" /\ st.refreshToken[cred.sid] = 0
        THEN [sessionId |-> NoId, socket |-> sock]
        ELSE [sessionId |-> cred.sid, socket |-> cred.sid]

\* createTokens signs the n-th token pair for sessionId, stores the refresh
\* token under refreshToken:{sessionId} and sets both cookies (cookies = n).
createTokens(st, sessionId, n) ==
  [st |-> RedisSetRefreshToken(st, sessionId, n), cookies |-> n]
NoTokens(st) == [st |-> st, cookies |-> 0]

\* ------------------------------------------------------ lifecycle handlers
\* The seven writes of setSession, in the order of the code.
SetSessionStep(st, sessionId, data, i) ==
  CASE i = 1 -> RedisSetSession(st, sessionId, data)
    [] i = 2 -> SaddRole(st, data.roleId, sessionId)
    [] i = 3 -> SaddUser(st, data.userId, sessionId)
    [] i = 4 -> SaddWorkspace(st, data.workspaceId, sessionId)
    [] i = 5 -> HsetRole(st, sessionId, data.roleId)
    [] i = 6 -> HsetUser(st, sessionId, data.userId)
    [] i = 7 -> HsetWorkspace(st, sessionId, data.workspaceId)

RECURSIVE SetSessionUpTo(_, _, _, _)
SetSessionUpTo(st, sessionId, data, k) ==
  IF k = 0 THEN st
  ELSE SetSessionStep(SetSessionUpTo(st, sessionId, data, k - 1), sessionId, data, k)

SetSessionWrites == 7

setSession(st, sessionId, data) == SetSessionUpTo(st, sessionId, data, SetSessionWrites)

\* A createSession that sets the cookies without storing the refresh token.
createSessionNoTokenEntry(st, d, sessionId, userId, fault, n) ==
  [st |-> setSession(st, sessionId, loadSessionData(d, userId, fault)), cookies |-> n]
\* createSession after nanoid() returned sessionId and the n-th token pair.
createSession(st, d, sessionId, userId, fault, n) ==
  LET sessionData == loadSessionData(d, userId, fault)
  IN createTokens(setSession(st, sessionId, sessionData), sessionId, n)

\* A refreshSession whose del names session:{id} instead of refreshToken:{id}.
refreshSessionDropsRecord(st, sessionId, n) ==
  LET sessionCache == st.session[sessionId]
      st1 == RedisDelSession(st, sessionId)
  IN IF Exists(sessionCache)
       THEN createTokens(RedisExpireSession(st1, sessionId), sessionId, n)
       ELSE NoTokens(st1)
\* A refreshSession that issues tokens without looking at session:{id}.
refreshSessionUnguarded(st, sessionId, n) ==
  createTokens(RedisExpireSession(RedisDelRefreshToken(st, sessionId), sessionId),
               sessionId, n)
refreshSession(st, sessionId, n) ==
  LET sessionCache == st.session[sessionId]
      st1 == RedisDelRefreshToken(st, sessionId)
  IN IF Exists(sessionCache)
       THEN createTokens(RedisExpireSession(st1, sessionId), sessionId, n)
       ELSE NoTokens(st1)

\* An updateSession that rewrites the session whether or not it exists.
updateSessionUnguarded(st, d, sessionId, userId, fault) ==
  setSession(st, sessionId, loadSessionData(d, userId, fault))
updateSession(st, d, sessionId, userId, fault) ==
  LET sessionCache == st.session[sessionId]
  IN IF Exists(sessionCache)
       THEN setSession(st, sessionId, loadSessionData(d, userId, fault))
       ELSE st

\* updateSession cut short by a cache-store error after k completed round-trips
\* (the get, then the writes of setSession).
updateSessionUpTo(st, d, sessionId, userId, fault, k) ==
  IF k = 0 \/ ~Exists(st.session[sessionId]) THEN st
  ELSE SetSessionUpTo(st, sessionId, loadSessionData(d, userId, fault), k - 1)

\* A deleteSession that clears the hashes and the refresh token only when the
\* record exists.
deleteSessionGuarded(st, sessionId) ==
  LET sessionCache == st.session[sessionId]
  IN IF Exists(sessionCache)
       THEN RedisDelRefreshToken(
              HdelWorkspace(HdelUser(HdelRole(
                SremWorkspace(
                  SremUser(
                    SremRole(RedisDelSession(st, sessionId),
                             sessionCache.roleId, sessionId),
                    sessionCache.userId, sessionId),
                  sessionCache.workspaceId, sessionId),
                sessionId), sessionId), sessionId),
              sessionId)
       ELSE st
deleteSession(st, sessionId) ==
  LET sessionCache == st.session[sessionId]
      st1 == IF Exists(sessionCache)
               THEN SremWorkspace(
                      SremUser(
                        SremRole(RedisDelSession(st, sessionId),
                                 sessionCache.roleId, sessionId),
                        sessionCache.userId, sessionId),
                      sessionCache.workspaceId, sessionId)
               ELSE st
  IN RedisDelRefreshToken(
       HdelWorkspace(HdelUser(HdelRole(st1, sessionId), sessionId), sessionId),
       sessionId)

\* A switchWorkspaceSession that writes the reloaded session whether or not
\* the record exists.
switchWorkspaceSessionAlwaysSets(st, d, sessionId, authUserId, fault) ==
  LET sessionCache == st.session[sessionId]
      st1 == IF Exists(sessionCache)
               THEN SremWorkspace(
                      SremUser(
                        SremRole(st, sessionCache.roleId, sessionId),
                        sessionCache.userId, sessionId),
                      sessionCache.workspaceId, sessionId)
               ELSE st
      st2 == HdelWorkspace(HdelUser(HdelRole(st1, sessionId), sessionId), sessionId)
  IN setSession(st2, sessionId, loadSessionData(d, authUserId, fault))
\* A switchWorkspaceSession that removes the old reverse-set members after the
\* update instead of before it.
switchWorkspaceSessionSremLast(st, d, sessionId, authUserId, fault) ==
  LET sessionCache == st.session[sessionId]
      st1 == updateSession(
               HdelWorkspace(HdelUser(HdelRole(st, sessionId), sessionId), sessionId),
               d, sessionId, authUserId, fault)
  IN IF Exists(sessionCache)
       THEN SremWorkspace(
              SremUser(
                SremRole(st1, sessionCache.roleId, sessionId),
                sessionCache.userId, sessionId),
              sessionCache.workspaceId, sessionId)
       ELSE st1
\* A switchWorkspaceSession that leaves the old reverse-set members in place.
switchWorkspaceSessionNoSrem(st, d, sessionId, authUserId, fault) ==
  updateSession(HdelWorkspace(HdelUser(HdelRole(st, sessionId), sessionId), sessionId),
                d, sessionId, authUserId, fault)
\* switchWorkspaceSession once getSessionId returned a session identifier.
switchWorkspaceSession(st, d, sessionId, authUserId, fault) ==
  LET sessionCache == st.session[sessionId]
      st1 == IF Exists(sessionCache)
               THEN SremWorkspace(
                      SremUser(
                        SremRole(st, sessionCache.roleId, sessionId),
                        sessionCache.userId, sessionId),
                      sessionCache.workspaceId, sessionId)
               ELSE st
      st2 == HdelWorkspace(HdelUser(HdelRole(st1, sessionId), sessionId), sessionId)
  IN updateSession(st2, d, sessionId, authUserId, fault)

\* The store round-trips of deleteSession after its redis.get returned
\* sessionCache, in the order of the code: 1-4 run only when the record was
\* found, 5-8 always.
DeleteSessionStep(st, sessionId, sessionCache, i) ==
  CASE i = 1 -> RedisDelSession(st, sessionId)
    [] i = 2 -> SremRole(st, sessionCache.roleId, sessionId)
    [] i = 3 -> SremUser(st, sessionCache.userId, sessionId)
    [] i = 4 -> SremWorkspace(st, sessionCache.workspaceId, sessionId)
    [] i = 5 -> HdelRole(st, sessionId)
    [] i = 6 -> HdelUser(st, sessionId)
    [] i = 7 -> HdelWorkspace(st, sessionId)
    [] i = 8 -> RedisDelRefreshToken(st, sessionId)
DeleteSessionWrites == 8
DeleteSessionFirst(sessionCache) == IF Exists(sessionCache) THEN 1 ELSE 5

\* The store round-trips of refreshSession after its redis.get returned
\* sessionCache: the del of the refresh token, then, when the record was
\* found, the expire and the set of createTokens for the n-th token pair.
RefreshSessionStep(st, sessionId, n, i) ==
  CASE i = 1 -> RedisDelRefreshToken(st, sessionId)
    [] i = 2 -> RedisExpireSession(st, sessionId)
    [] i = 3 -> createTokens(st, sessionId, n).st
RefreshSessionWrites == 3
RefreshSessionLast(sessionCache) ==
  IF Exists(sessionCache) THEN RefreshSessionWrites ELSE 1

\* ------------------------------------------------------------------ fan-out
\* The loop of updateSessionRole / updateSessionUser / updateSessionWorkspace
\* over the members read by smembers, in the order `order`.  userParam is the
\* userId argument of updateSessionUser, or NoRole when the loop reads the
\* owner from session:user.  The reload of member faultAt meets fault f; the
\* processing of member errAt raises a cache-store error after k completed
\* round-trips of its updateSession, which ends the loop.
RECURSIVE FanOutLoop(_, _, _, _, _, _, _, _, _, _)
FanOutLoop(st, d, order, i, userParam, faultAt, f, errAt, k, processed) ==
  IF i > Len(order) THEN [st |-> st, processed |-> processed, ok |-> TRUE]
  ELSE
    LET sessionId == order[i]
        userId == IF userParam # NoRole THEN userParam ELSE st.sessionUser[sessionId]
        fault == IF sessionId = faultAt THEN f ELSE "none"
    IN IF sessionId = errAt
         THEN [st |-> IF userId # NoRole
                        THEN updateSessionUpTo(st, d, sessionId, userId, fault, k)
                        ELSE st,
               processed |-> processed, ok |-> FALSE]
         ELSE FanOutLoop(IF userId # NoRole
                           THEN updateSession(st, d, sessionId, userId, fault)
                           ELSE st,
                         d, order, i + 1, userParam, faultAt, f, errAt, k,
                         processed \cup {sessionId})

\* An updateSessionRole that stops after the first member.
updateSessionRoleFirstOnly(st, d, roleId, order, faultAt, f, errAt, k) ==
  FanOutLoop(st, d, IF order = <<>> THEN order ELSE <<order[1]>>, 1, NoRole,
             faultAt, f, errAt, k, {})
updateSessionRole(st, d, roleId, order, faultAt, f, errAt, k) ==
  FanOutLoop(st, d, order, 1, NoRole, faultAt, f, errAt, k, {})
updateSessionUser(st, d, userId, order, faultAt, f, errAt, k) ==
  FanOutLoop(st, d, order, 1, userId, faultAt, f, errAt, k, {})
updateSessionWorkspace(st, d, workspaceId, order, faultAt, f, errAt, k) ==
  FanOutLoop(st, d, order, 1, NoRole, faultAt, f, errAt, k, {})

\* The orders in which smembers may return the set S.
Orders(S) == {o \in [1..Cardinality(S) -> S] : \A x \in S : \E j \in DOMAIN o : o[j] = x}

\* ------------------------------------------------------------------- state
\* Every account starts in workspace w1 with role r1 and is also a member of
\* w2 with role r2.
InitDb ==
  [cur |-> [u \in Users |-> "w1"],
   mem |-> [u \in Users |-> [w \in Workspaces |-> IF w = "w1" THEN "r1" ELSE "r2"]],
   perms |-> [r \in Roles |-> IF r = "r1" THEN <<"read">> ELSE <<"read", "write">>]]

\* What the last operation was and what it saw, for stating the claims:
\* wasLive / hadRefresh / old are session:{id} and refreshToken:{id} as the
\* operation found them, loaded says that every lookup of its reload
\* succeeded, cookies that it set the two cookies, replay that the presented
\* credential is a valid one an earlier refresh had consumed, cached that
\* ctx.req.socket.sessionId was set when the operation started; faultAt and
\* errAt are the members of a fan-out whose reload failed and whose update
\* raised a cache-store error, fault the fault the load of a createSession met.
NoLast ==
  [op |-> "init", id |-> NoId, wasLive |-> FALSE, hadRefresh |-> FALSE,
   cookies |-> FALSE, old |-> Absent, loaded |-> TRUE, kind |-> "",
   cached |-> FALSE, credOk |-> FALSE, replay |-> FALSE, result |-> NoId,
   key |-> "", members |-> {}, processed |-> {}, stale |-> {},
   faultAt |-> NoId, errAt |-> NoId, ok |-> TRUE, fault |-> "none"]

\* The handler invocations in flight when handlers interleave: which handler
\* (op), on which session, how many of its store round-trips are done (pc),
\* what its redis.get returned (cache), what it loaded (data), the refresh
\* credential presented (cred) and the token stored when it was checked (seen),
\* whether it has deleted session:{id} (removed), the token pair it set as
\* cookies (cookies).
Procs == 1..MaxProcs
Idle ==
  [op |-> "idle", id |-> NoId, pc |-> 0, done |-> FALSE, cache |-> Absent,
   data |-> Absent, cred |-> 0, seen |-> 0, removed |-> FALSE, cookies |-> 0]

Init ==
  /\ store = EmptyStore
  /\ db = InitDb
  /\ socket = NoId
  /\ issued = <<>>
  /\ consumed = {}
  /\ nextId = 1
  /\ owner = [i \in Ids |-> "u1"]
  /\ dbChanges = 0
  /\ events = 0
  /\ errors = 0
  /\ last = NoLast
  /\ procs = [p \in Procs |-> Idle]

\* The operation under observation is the last one of the run: an operation
\* either leaves no record, or records what it saw and did and ends the run.
Running == last = NoLast
Observed(rec) == last' \in {NoLast, rec}

\* What the environment does in a run is bounded: changes of the durable
\* store (dbChanges), lapses of an expiry and failing durable-store lookups
\* (events), cache-store errors (errors).  Cost(fault) is what a reload meeting
\* fault adds to events.
Cost(fault) == IF fault = "none" THEN 0 ELSE 1
Event(n) == /\ events + n <= MaxEvents
            /\ events' = events + n

\* The faults a reload may meet while the bound allows one more event.
Faults == IF events < MaxEvents THEN ReloadFaults ELSE {"none"}

Created == 1..(nextId - 1)
Live(id) == Exists(store.session[id])
Issue(cookies, sessionId) == IF cookies = 0 THEN issued ELSE Append(issued, sessionId)

\* ----------------------------------------------------------------- actions
\* The accounts are interchangeable in Init and in the code, so the first
\* session of a run is taken to be u1's.
Create(userId, fault) ==
  /\ Running
  /\ nextId <= MaxSessions
  /\ nextId = 1 => userId = "u1"
  /\ Len(issued) < MaxTokens
  /\ LET r == createSession(store, db, nextId, userId, fault, Len(issued) + 1)
     IN /\ store' = r.st
        /\ issued' = Issue(r.cookies, nextId)
        /\ Observed([NoLast EXCEPT !.op = "create", !.id = nextId,
                                    !.cookies = (r.cookies # 0),
                                    !.loaded = (fault = "none"),
                                    !.fault = fault])
  /\ owner' = [owner EXCEPT ![nextId] = userId]
  /\ nextId' = nextId + 1
  /\ Event(Cost(fault))
  /\ UNCHANGED <<procs, db, dbChanges, errors, socket, consumed>>

Refresh(sessionId) ==
  /\ Running
  /\ Live(sessionId) => Len(issued) < MaxTokens
  /\ LET r == refreshSession(store, sessionId, Len(issued) + 1)
     IN /\ store' = r.st
        /\ issued' = Issue(r.cookies, sessionId)
        /\ consumed' = IF r.cookies # 0 /\ store.refreshToken[sessionId] # 0
                         THEN consumed \cup {store.refreshToken[sessionId]}
                         ELSE consumed
        /\ Observed([NoLast EXCEPT !.op = "refresh", !.id = sessionId,
                                    !.wasLive = Live(sessionId),
                                    !.hadRefresh = store.refreshToken[sessionId] # 0,
                                    !.cookies = (r.cookies # 0)])
  /\ UNCHANGED <<procs, db, dbChanges, events, errors, socket, nextId, owner>>

Update(sessionId, fault) ==
  /\ Running
  /\ Live(sessionId) \/ fault = "none"
  /\ store' = updateSession(store, db, sessionId, owner[sessionId], fault)
  /\ Observed([NoLast EXCEPT !.op = "update", !.id = sessionId,
                              !.wasLive = Live(sessionId),
                              !.loaded = (fault = "none")])
  /\ Event(Cost(fault))
  /\ UNCHANGED <<procs, db, dbChanges, errors, socket, issued, consumed, nextId, owner>>

Delete(sessionId) ==
  /\ Running
  /\ store' = deleteSession(store, sessionId)
  /\ Observed([NoLast EXCEPT !.op = "delete", !.id = sessionId,
                              !.wasLive = Live(sessionId),
                              !.hadRefresh = store.refreshToken[sessionId] # 0])
  /\ UNCHANGED <<procs, db, dbChanges, events, errors, socket, issued, consumed, nextId, owner>>

\* A request whose handler is switchWorkspaceSession: ctx.auth.userId is the
\* account the request was authenticated as, the owner of the resolved session.
SwitchWorkspace(cred, fault) ==
  LET got == getSessionId(socket, store, "accessToken", cred)
      sessionId == got.sessionId
  IN /\ Running
     /\ socket' = got.socket
     /\ IF sessionId = NoId
          THEN /\ store' = store
               /\ fault = "none"
               /\ Event(0)
               /\ Observed([NoLast EXCEPT !.op = "switchWorkspace"])
          ELSE /\ store' = switchWorkspaceSession(store, db, sessionId,
                                                   owner[sessionId], fault)
               /\ Observed([NoLast EXCEPT !.op = "switchWorkspace",
                                           !.id = sessionId,
                                           !.wasLive = Live(sessionId),
                                           !.old = store.session[sessionId],
                                           !.loaded = (fault = "none")])
               /\ Event(IF Live(sessionId) THEN Cost(fault) ELSE 0)
               /\ Live(sessionId) \/ fault = "none"
     /\ UNCHANGED <<procs, db, dbChanges, errors, issued, consumed, nextId, owner>>

\* A request that resolves its session identifier from one of the cookies.
ResolveSessionId(tokenType, cred) ==
  LET got == getSessionId(socket, store, tokenType, cred)
  IN /\ Running
     /\ socket' = got.socket
     /\ Observed([NoLast EXCEPT !.op = "resolve", !.kind = tokenType,
                                 !.cached = (socket # NoId),
                                 !.credOk = (cred.status = "valid"),
                                 !.replay = (cred.status = "valid" /\ cred.n \in consumed),
                                 !.result = got.sessionId])
     /\ UNCHANGED <<procs, store, db, dbChanges, events, errors, issued, consumed, nextId, owner>>

\* The connection closes; the next request arrives on a new socket.
ConnectionClosed ==
  /\ Running
  /\ socket # NoId
  /\ socket' = NoId
  /\ last' = NoLast
  /\ UNCHANGED <<procs, store, db, dbChanges, events, errors, issued, consumed, nextId, owner>>

\* The live sessions of role roleId whose cached permissions are out of date.
StaleOfRole(roleId) ==
  {i \in Created : /\ Live(i)
                    /\ store.session[i].roleId = roleId
                    /\ store.session[i].permissions # db.perms[roleId]}

FanOut(op, key, members, result, faultAt, errAt, stale) ==
  /\ Running
  /\ Event(IF faultAt = NoId THEN 0 ELSE 1)
  /\ \E r \in {result} :
       /\ errors' = IF r.ok THEN errors ELSE errors + 1
       /\ store' = r.st
       /\ Observed([NoLast EXCEPT !.op = op, !.key = key, !.members = members,
                                   !.processed = r.processed, !.ok = r.ok,
                                   !.faultAt = faultAt, !.errAt = errAt,
                                   !.stale = stale])
  /\ UNCHANGED <<procs, db, dbChanges, socket, issued, consumed, nextId, owner>>

\* Where a cache-store error cuts an updateSession short, in completed
\* round-trips: before the record is rewritten, between the record and the
\* reverse sets, between the reverse sets and the forward hashes.
ErrorPoints == {0, 2, 5}

\* The inputs of a fan-out over members: every reload succeeds and no call
\* raises, or the reload of one member meets fault f, or the update of one
\* member raises a cache-store error after k completed round-trips.
FanOutInputs(members) ==
  {[faultAt |-> NoId, f |-> "none", errAt |-> NoId, k |-> 0]}
  \cup (IF events < MaxEvents
          THEN [faultAt : members, f : ReloadFaults \ {"none"}, errAt : {NoId}, k : {0}]
          ELSE {})
  \cup (IF errors < MaxErrors
          THEN [faultAt : {NoId}, f : {"none"}, errAt : members, k : ErrorPoints]
          ELSE {})

UpdateSessionRole(roleId) ==
  LET members == IF Running THEN store.roleSessions[roleId] ELSE {}
  IN \E order \in Orders(members), x \in FanOutInputs(members) :
       FanOut("fanOutByRole", roleId, members,
              updateSessionRole(store, db, roleId, order, x.faultAt, x.f, x.errAt, x.k),
              x.faultAt, x.errAt, StaleOfRole(roleId))

UpdateSessionUser(userId) ==
  LET members == IF Running THEN store.userSessions[userId] ELSE {}
  IN \E order \in Orders(members), x \in FanOutInputs(members) :
       FanOut("fanOutByUser", userId, members,
              updateSessionUser(store, db, userId, order, x.faultAt, x.f, x.errAt, x.k),
              x.faultAt, x.errAt, {})

UpdateSessionWorkspace(workspaceId) ==
  LET members == IF Running THEN store.workspaceSessions[workspaceId] ELSE {}
  IN \E order \in Orders(members), x \in FanOutInputs(members) :
       FanOut("fanOutByWorkspace", workspaceId, members,
              updateSessionWorkspace(store, db, workspaceId, order,
                                     x.faultAt, x.f, x.errAt, x.k),
              x.faultAt, x.errAt, {})

\* The 60-day expiry of session:{id} lapses.  Both keys of a session carry the
\* same lifetime, so the one whose expiry was started earlier lapses first.
SessionLapses(sessionId) ==
  /\ Running
  /\ Live(sessionId)
  /\ store.refreshToken[sessionId] # 0 => store.ttlLast[sessionId] = "refreshToken"
  /\ store' = RedisDelSession(store, sessionId)
  /\ last' = NoLast
  /\ UNCHANGED <<procs, db, dbChanges, errors, socket, issued, consumed, nextId, owner>>

ExpireSession(sessionId) == SessionLapses(sessionId) /\ Event(1)

\* The 60-day expiry of refreshToken:{id} lapses.
RefreshTokenLapses(sessionId) ==
  /\ Running
  /\ store.refreshToken[sessionId] # 0
  /\ Live(sessionId) => store.ttlLast[sessionId] = "session"
  /\ store' = RedisDelRefreshToken(store, sessionId)
  /\ last' = NoLast
  /\ UNCHANGED <<procs, db, dbChanges, errors, socket, issued, consumed, nextId, owner>>

ExpireRefreshToken(sessionId) == RefreshTokenLapses(sessionId) /\ Event(1)

\* The durable store changes: an account selects another workspace, its
\* membership in its current workspace gets another role or is revoked, a
\* role's permissions are edited.
DbChanged(d) ==
  /\ Running
  /\ dbChanges < MaxDbChanges
  /\ d # db
  /\ db' = d
  /\ dbChanges' = dbChanges + 1
  /\ last' = NoLast
  /\ UNCHANGED <<procs, store, events, errors, socket, issued, consumed, nextId, owner>>

SelectWorkspace(userId, workspaceId) ==
  DbChanged([db EXCEPT !.cur[userId] = workspaceId])
SetMembership(userId, roleId) ==
  DbChanged([db EXCEPT !.mem[userId][db.cur[userId]] = roleId])
SetPermissions(roleId, permissions) ==
  DbChanged([db EXCEPT !.perms[roleId] = permissions])

Next ==
  \/ \E u \in Users, f \in Faults : Create(u, f)
  \/ \E i \in Created : Refresh(i)
  \/ \E i \in Created, f \in Faults : Update(i, f)
  \/ \E i \in Created : Delete(i)
  \/ \E c \in Presented(socket), f \in Faults : SwitchWorkspace(c, f)
  \/ \E t \in {"accessToken", "refreshToken"}, c \in Presented(socket) :
       ResolveSessionId(t, c)
  \/ ConnectionClosed
  \/ \E r \in Roles : UpdateSessionRole(r)
  \/ \E u \in Users : UpdateSessionUser(u)
  \/ \E w \in Workspaces : UpdateSessionWorkspace(w)
  \/ \E i \in Created : ExpireSession(i)
  \/ \E i \in Created : ExpireRefreshToken(i)
  \/ \E u \in Users, w \in Workspaces : SelectWorkspace(u, w)
  \/ \E u \in Users, r \in Roles \cup {NoRole} : SetMembership(u, r)
  \/ \E r \in Roles, p \in PermSets : SetPermissions(r, p)

Spec == Init /\ [][Next]_vars

\* ------------------------------------------------- interleaved handlers
\* Handlers run concurrently on the event loop: every awaited store round-trip
\* is one step, and steps of different invocations interleave.  The durable
\* store does not change here, so what an updateSession loads does not depend
\* on when, between its get and its first write, the load runs.
InFlight(p) == procs[p].op # "idle" /\ ~procs[p].done
AllDone == \A p \in Procs : ~InFlight(p)

RaceFrame == UNCHANGED <<db, dbChanges, events, errors, socket, consumed, nextId, owner, last>>

\* updateSession(sessionId, userId) starts: its redis.get.
StartUpdate(p, sessionId) ==
  /\ Running
  /\ procs[p].op = "idle"
  /\ procs' = [procs EXCEPT ![p] =
       [Idle EXCEPT !.op = "update", !.id = sessionId,
                    !.cache = store.session[sessionId],
                    !.data = IF Live(sessionId)
                               THEN loadSessionData(db, owner[sessionId], "none")
                               ELSE Absent,
                    !.done = ~Live(sessionId)]]
  /\ UNCHANGED <<store, issued>>
  /\ RaceFrame

\* The next write of the setSession of an updateSession in flight.
UpdateStep(p) ==
  /\ Running
  /\ procs[p].op = "update"
  /\ InFlight(p)
  /\ store' = SetSessionStep(store, procs[p].id, procs[p].data, procs[p].pc + 1)
  /\ procs' = [procs EXCEPT ![p].pc = @ + 1,
                            ![p].done = (procs[p].pc + 1 = SetSessionWrites)]
  /\ UNCHANGED issued
  /\ RaceFrame

\* deleteSession(sessionId) starts: its redis.get.
StartDelete(p, sessionId) ==
  /\ Running
  /\ procs[p].op = "idle"
  /\ procs' = [procs EXCEPT ![p] =
       [Idle EXCEPT !.op = "delete", !.id = sessionId,
                    !.cache = store.session[sessionId],
                    !.pc = DeleteSessionFirst(store.session[sessionId]) - 1]]
  /\ UNCHANGED <<store, issued>>
  /\ RaceFrame

\* The next round-trip of a deleteSession in flight.
DeleteStep(p) ==
  /\ Running
  /\ procs[p].op = "delete"
  /\ InFlight(p)
  /\ store' = DeleteSessionStep(store, procs[p].id, procs[p].cache, procs[p].pc + 1)
  /\ procs' = [procs EXCEPT ![p].pc = @ + 1,
                            ![p].removed = (@ \/ procs[p].pc + 1 = 1),
                            ![p].done = (procs[p].pc + 1 = DeleteSessionWrites)]
  /\ UNCHANGED issued
  /\ RaceFrame

\* A refresh request on a connection of its own presents the n-th refresh
\* token: getSessionId(ctx, "refreshToken"), then the redis.get of
\* refreshSession.  seen is the token stored when getSessionId checked it.
StartRefresh(p, cred) ==
  LET got == getSessionId(NoId, store, "refreshToken", cred)
  IN /\ Running
     /\ procs[p].op = "idle"
     /\ cred.status = "valid"
     /\ procs' = [procs EXCEPT ![p] =
          [Idle EXCEPT !.op = "refresh", !.id = got.sessionId, !.cred = cred.n,
                       !.seen = store.refreshToken[cred.sid],
                       !.done = (got.sessionId = NoId)]]
     /\ UNCHANGED <<store, issued>>
     /\ RaceFrame

\* The next round-trip of the refreshSession of a refresh request in flight:
\* its redis.get, then its writes.
RefreshStep(p) ==
  LET sessionId == procs[p].id
      n == Len(issued) + 1
  IN /\ Running
     /\ procs[p].op = "refresh"
     /\ InFlight(p)
     /\ IF procs[p].pc = 0
          THEN /\ procs' = [procs EXCEPT ![p].pc = 1,
                                         ![p].cache = store.session[sessionId]]
               /\ UNCHANGED <<store, issued>>
          ELSE /\ store' = RefreshSessionStep(store, sessionId, n, procs[p].pc)
               /\ issued' = IF procs[p].pc = RefreshSessionWrites
                               THEN Append(issued, sessionId) ELSE issued
               /\ procs' = [procs EXCEPT
                    ![p].pc = @ + 1,
                    ![p].cookies = IF procs[p].pc = RefreshSessionWrites THEN n ELSE @,
                    ![p].done = (procs[p].pc = RefreshSessionLast(procs[p].cache))]
     /\ RaceFrame

\* Once no invocation is in flight, one more updateSession or deleteSession
\* runs alone to completion.
SoloUpdate(sessionId) == AllDone /\ Update(sessionId, "none")
SoloDelete(sessionId) == AllDone /\ Delete(sessionId)

NextRace ==
  \/ \E u \in Users : Create(u, "none")
  \/ \E p \in Procs, i \in Created : StartUpdate(p, i)
  \/ \E p \in Procs : UpdateStep(p)
  \/ \E p \in Procs, i \in Created : StartDelete(p, i)
  \/ \E p \in Procs : DeleteStep(p)
  \/ \E p \in Procs, c \in Creds : StartRefresh(p, c)
  \/ \E p \in Procs : RefreshStep(p)
  \/ \E i \in Created : SoloUpdate(i)
  \/ \E i \in Created : SoloDelete(i)

SpecRace == Init /\ [][NextRace]_vars

\* ------------------------------------------------ sessions left untouched
\* Sessions are created and then only time passes: every expiry that was set
\* lapses, in the order in which the expiries were started.
NextUntouched ==
  \/ \E u \in Users, f \in Faults : Create(u, f)
  \/ \E i \in Created : SessionLapses(i) /\ UNCHANGED events
  \/ \E i \in Created : RefreshTokenLapses(i) /\ UNCHANGED events

SpecUntouched == Init /\ [][NextUntouched]_vars

\* ------------------------------------------------------- the loader alone
\* loadSessionData applied to every content of the durable store, every
\* account and every fault of its lookups.
Dbs ==
  [cur : [Users -> Workspaces],
   mem : [Users -> [Workspaces -> Roles \cup {NoRole}]],
   perms : [Roles -> PermSets]]

InitLoad ==
  /\ store = EmptyStore
  /\ db \in Dbs
  /\ socket = NoId
  /\ issued = <<>>
  /\ consumed = {}
  /\ nextId = 1
  /\ owner = [i \in Ids |-> "u1"]
  /\ dbChanges = 0
  /\ events = 0
  /\ errors = 0
  /\ last = NoLast
  /\ procs = [p \in Procs |-> Idle]

Load(userId, fault) ==
  /\ Running
  /\ last' = [NoLast EXCEPT !.op = "load", !.key = userId, !.fault = fault,
                            !.old = loadSessionData(db, userId, fault)]
  /\ UNCHANGED <<procs, store, db, dbChanges, events, errors, socket, issued, consumed,
                 nextId, owner>>

NextLoad == \E u \in Users, f \in LoadFaults : Load(u, f)

SpecLoad == InitLoad /\ [][NextLoad]_vars

TypeOK ==
  /\ \A i \in Ids : store.session[i] \in SessionData \cup {Absent}
  /\ \A i \in Ids : store.refreshToken[i] \in 0..Len(issued)
  /\ socket \in Ids \cup {NoId}
  /\ nextId \in 1..(MaxSessions + 1)

\* ------------------------------------------------------------------- claims
\* Invariant I1 for a live session: the forward hashes name the roleId, userId
\* and workspaceId of the stored SessionData, and id is a member of exactly the
\* three reverse sets those values name.
I1(id) ==
  LET data == store.session[id]
  IN /\ store.sessionRole[id] = data.roleId
     /\ store.sessionUser[id] = data.userId
     /\ store.sessionWorkspace[id] = data.workspaceId
     /\ \A r \in RoleKeys : id \in store.roleSessions[r] <=> r = data.roleId
     /\ \A u \in Users : id \in store.userSessions[u] <=> u = data.userId
     /\ \A w \in WorkspaceKeys :
          id \in store.workspaceSessions[w] <=> w = data.workspaceId

\* id is a member of no reverse set.
InNoReverseSet(id) ==
  /\ \A r \in RoleKeys : id \notin store.roleSessions[r]
  /\ \A u \in Users : id \notin store.userSessions[u]
  /\ \A w \in WorkspaceKeys : id \notin store.workspaceSessions[w]

\* The run so far had one session identifier, every durable-store lookup
\* succeeded, no expiry lapsed and no cache-store call raised.
SingleQuiet == nextId = 2 /\ events = 0 /\ errors = 0

\* C1: after a create, update, switchWorkspace or delete on a single session
\* identifier, with changes of the durable store in between, a live session
\* satisfies I1: the forward hashes and the reverse-set memberships match the
\* stored SessionData exactly, and id is in no reverse set of an old value.
C1_IndexConsistent ==
  (/\ last.op \in {"create", "update", "switchWorkspace", "delete"}
   /\ last.id # NoId
   /\ Live(last.id)
   /\ SingleQuiet)
  => I1(last.id)

\* C2: after delete(id) of a live session, whatever preceded it, session:{id}
\* and refreshToken:{id} are absent and id is a member of no reverse set.
C2_DeleteIsFinal ==
  (last.op = "delete" /\ last.wasLive /\ events = 0 /\ errors = 0)
  => /\ ~Live(last.id)
     /\ store.refreshToken[last.id] = 0
     /\ InNoReverseSet(last.id)

\* C3: a refresh credential that a refresh has consumed, presented again on a
\* socket without a cached identifier, resolves to absent.
C3_RefreshOneTime ==
  (/\ last.op = "resolve"
   /\ last.kind = "refreshToken"
   /\ ~last.cached
   /\ last.replay)
  => last.result = NoId

\* C4: resolving the refresh-credential kind returns a session identifier only
\* if refreshToken:{sessionId} exists in the store at the time of the call,
\* also on a connection on which an identifier was resolved earlier.
C4_ResolveReadsStore ==
  (/\ last.op = "resolve"
   /\ last.kind = "refreshToken"
   /\ last.result # NoId)
  => store.refreshToken[last.result] # 0

FanOuts == {"fanOutByRole", "fanOutByUser", "fanOutByWorkspace"}

\* C5 as stated: after the permission set of role r changed and fanOutByRole(r)
\* ran to completion, every live session whose roleId is r carries the
\* permissions the durable store holds for r.
C5_EverySessionOfRole ==
  (last.op = "fanOutByRole" /\ last.ok)
  => \A i \in Created :
       (Live(i) /\ store.session[i].roleId = last.key)
         => store.session[i].permissions = db.perms[last.key]

\* C5: after fanOutByRole(r) ran to completion, every live session that
\* role:r:sessions listed when it started and whose roleId is r carries the
\* permissions the durable store holds for r, and every listed live session
\* other than the one whose reload failed holds what a reload of its account
\* yields.
C5_FanOutComplete ==
  (last.op = "fanOutByRole" /\ last.ok)
  => /\ \A i \in last.members :
          (Live(i) /\ store.session[i].roleId = last.key)
            => store.session[i].permissions = db.perms[last.key]
     /\ \A i \in last.members \ {last.faultAt} :
          (Live(i) /\ store.sessionUser[i] \in Users)
            => store.session[i] = loadSessionData(db, store.sessionUser[i], "none")

\* A fan-out over two listed sessions of a role whose permissions had changed,
\* in which the reload of one failed and the other was brought up to date.
C5_Witness ==
  /\ last.op = "fanOutByRole"
  /\ last.ok
  /\ Cardinality(last.members) >= 2
  /\ last.faultAt \in last.members
  /\ \E i \in last.stale \ {last.faultAt} :
       /\ i \in last.members
       /\ Live(i)
       /\ store.session[i].roleId = last.key
       /\ store.session[i].permissions = db.perms[last.key]

\* C6: in every fan-out, each member of the set read at the start other than
\* the one whose processing failed is processed.
C6_FanOutNotAborted ==
  last.op \in FanOuts => (last.members \ {last.errAt}) \subseteq last.processed

\* C7: update on a session identifier whose session:{id} is absent changes
\* nothing in the store.
C7_UpdateAbsentNoOp ==
  [][(last'.op = "update" /\ ~last'.wasLive) => store' = store]_vars

\* An update of an absent session whose reverse-set and forward-hash residue
\* is still in the store.
C7_Witness ==
  /\ last.op = "update"
  /\ ~last.wasLive
  /\ ~InNoReverseSet(last.id)
  /\ store.sessionRole[last.id] # NoRole

\* C8: refresh on a session identifier whose session:{id} is absent changes
\* nothing in the store; an existing refreshToken:{id} is left as it was.
C8_RefreshAbsentNoOp ==
  [][(last'.op = "refresh" /\ ~last'.wasLive) => store' = store]_vars

\* C9: when session:{id} is absent, refresh sets no cookie, leaves no
\* refreshToken:{id} behind and does not create session:{id}.
C9_RefreshFailsClosed ==
  (last.op = "refresh" /\ ~last.wasLive)
  => /\ ~last.cookies
     /\ store.refreshToken[last.id] = 0
     /\ ~Live(last.id)

\* A refresh of an absent session whose refreshToken:{id} existed.
C9_Witness ==
  /\ last.op = "refresh"
  /\ ~last.wasLive
  /\ last.hadRefresh
  /\ ~last.cookies

\* C10: switchWorkspace for a live session cached in one workspace, after the
\* account selected another workspace it is a member of, with every lookup of
\* the reload succeeding: id leaves the old workspace's and the old role's
\* reverse set and is in the new ones, and the record and session:workspace
\* name the new workspace.
C10_SwitchWorkspace ==
  (/\ last.op = "switchWorkspace"
   /\ last.id # NoId
   /\ last.wasLive
   /\ last.loaded
   /\ last.old.workspaceId \in Workspaces
   /\ db.cur[owner[last.id]] # last.old.workspaceId
   /\ db.mem[owner[last.id]][db.cur[owner[last.id]]] # NoRole)
  => LET id == last.id
         w2 == db.cur[owner[id]]
         newRole == db.mem[owner[id]][w2]
     IN /\ id \notin store.workspaceSessions[last.old.workspaceId]
        /\ id \in store.workspaceSessions[w2]
        /\ store.session[id].workspaceId = w2
        /\ store.sessionWorkspace[id] = w2
        /\ store.session[id].roleId = newRole
        /\ id \in store.roleSessions[newRole]
        /\ last.old.roleId # newRole => id \notin store.roleSessions[last.old.roleId]

\* A switch from w1 to w2 that also changed the role of the session.
C10_Witness ==
  /\ last.op = "switchWorkspace"
  /\ last.id # NoId
  /\ last.wasLive
  /\ last.loaded
  /\ last.old.workspaceId = "w1"
  /\ db.cur[owner[last.id]] = "w2"
  /\ store.session[last.id].workspaceId = "w2"
  /\ last.old.roleId \in Roles
  /\ store.session[last.id].roleId \in Roles \ {last.old.roleId}

\* C11: after create(account) the record of the fresh id is what load(account)
\* returned, id is in exactly the three reverse sets its values name, the
\* forward hashes map id to them, refreshToken:{id} exists and the cookies are
\* set; an account without membership in its current workspace gets empty
\* workspaceId, roleId and permissions and is indexed under the empty buckets.
C11_CreateIndexes ==
  last.op = "create"
  => LET id == last.id
         account == owner[id]
         data == loadSessionData(db, account, last.fault)
     IN /\ store.session[id] = data
        /\ data.userId = account
        /\ I1(id)
        /\ store.refreshToken[id] # 0
        /\ last.cookies
        /\ db.mem[account][db.cur[account]] = NoRole
             => /\ data.workspaceId = Empty
                /\ data.roleId = Empty
                /\ data.permissions = <<>>
                /\ id \in store.roleSessions[Empty]
                /\ id \in store.workspaceSessions[Empty]

\* A create for an account whose membership in its current workspace was
\* revoked, every lookup succeeding.
C11_Witness ==
  /\ last.op = "create"
  /\ last.loaded
  /\ db.mem[owner[last.id]][db.cur[owner[last.id]]] = NoRole
  /\ store.session[last.id].workspaceId = Empty
  /\ last.id \in store.workspaceSessions[Empty]

\* C12: a delete leaves a store that a second delete of the same id does not
\* change, and a delete of an already-absent session writes nothing: it only
\* removes the three forward-hash entries and refreshToken:{id}.
C12_DeleteIdempotent ==
  [][last'.op = "delete"
       => LET id == last'.id
          IN /\ deleteSession(store', id) = store'
             /\ ~last'.wasLive
                  => store' = [store EXCEPT !.sessionRole[id] = NoRole,
                                            !.sessionUser[id] = NoRole,
                                            !.sessionWorkspace[id] = NoRole,
                                            !.refreshToken[id] = 0]]_vars

\* A delete of a session whose record had lapsed while its refresh token, its
\* reverse-set members and its hash entries were still there.
C12_Witness ==
  /\ last.op = "delete"
  /\ ~last.wasLive
  /\ last.hadRefresh
  /\ ~InNoReverseSet(last.id)
  /\ store.refreshToken[last.id] = 0
  /\ store.sessionUser[last.id] = NoRole

\* C13: whichever lookup is missing or raises, load(account) returns a
\* SessionData with userId = account, with a workspaceId only if both the
\* workspace record and the membership record resolved, and with empty roleId
\* and permissions whenever no role record resolved.
C13_LoadNeverFails ==
  last.op = "load"
  => LET account == last.key
         f == last.fault
         reached == f \notin {"settingsMissing", "raiseSettings", "raiseMembership"}
         membershipResolved == reached /\ db.mem[account][db.cur[account]] # NoRole
         workspaceResolved == reached /\ f \notin {"raiseWorkspace", "workspaceMissing"}
         roleResolved == /\ membershipResolved
                         /\ f \notin {"raiseWorkspace", "raiseRole", "roleMissing"}
     IN /\ last.old \in SessionData
        /\ last.old.userId = account
        /\ last.old.workspaceId # Empty => (workspaceResolved /\ membershipResolved)
        /\ ~roleResolved => (last.old.roleId = Empty /\ last.old.permissions = <<>>)

\* A load in which the membership resolved and the workspace lookup raised.
C13_Witness ==
  /\ last.op = "load"
  /\ last.fault = "raiseWorkspace"
  /\ db.mem[last.key][db.cur[last.key]] # NoRole
  /\ last.old.workspaceId = Empty
  /\ last.old.roleId = Empty
  /\ last.old.permissions = <<>>

\* No key of the store references id: no reverse set has it as a member and
\* no forward hash has an entry for it.
Unreferenced(id) ==
  /\ InNoReverseSet(id)
  /\ store.sessionRole[id] = NoRole
  /\ store.sessionUser[id] = NoRole
  /\ store.sessionWorkspace[id] = NoRole

\* C14: every entry written for a session carries the 60-day expiry, so for a
\* session that is created and never touched again, once the expiry of
\* session:{id} and of refreshToken:{id} (the entry written last) has lapsed,
\* no key of the store references id.
C14_ExpiryCoversEveryEntry ==
  \A i \in Created :
    (~Live(i) /\ store.refreshToken[i] = 0) => Unreferenced(i)

\* C15: once a deleteSession has removed session:{id}, the record does not
\* exist again, however its steps interleave with those of other handlers on
\* the same id.
C15_AbsentIsTerminal ==
  \A p \in Procs :
    (procs[p].op = "delete" /\ procs[p].removed) => ~Live(procs[p].id)

\* One updateSession and one deleteSession on id have run interleaved and
\* both have returned.
Raced(id) ==
  \E p, q \in Procs :
    /\ procs[p].op = "update" /\ procs[p].id = id /\ procs[p].done
    /\ procs[q].op = "delete" /\ procs[q].id = id /\ procs[q].done

\* C16: after one update and one delete on id have interleaved, the next
\* update or delete of id that runs alone leaves either a live session for
\* which I1 holds exactly, or no record and no reverse-set member or
\* forward-hash entry for id.
C16_NextOperationRepairs ==
  (last.op \in {"update", "delete"} /\ Raced(last.id))
  => \/ Live(last.id) /\ I1(last.id)
     \/ ~Live(last.id) /\ Unreferenced(last.id)

\* C17: of two requests that present the same refresh credential, both checked
\* by getSessionId while that credential was the stored one, at most one is
\* issued a new token pair.
C17_OneTimeUnderConcurrency ==
  \A p, q \in Procs :
    (/\ p # q
     /\ procs[p].op = "refresh" /\ procs[q].op = "refresh"
     /\ procs[p].cred = procs[q].cred
     /\ procs[p].seen = procs[p].cred /\ procs[q].seen = procs[q].cred)
    => ~(procs[p].cookies # 0 /\ procs[q].cookies # 0)

\* The reverse sets and the forward hashes are the same in st1 and st2.
SameIndex(st1, st2) ==
  /\ st1.roleSessions = st2.roleSessions
  /\ st1.userSessions = st2.userSessions
  /\ st1.workspaceSessions = st2.workspaceSessions
  /\ st1.sessionRole = st2.sessionRole
  /\ st1.sessionUser = st2.sessionUser
  /\ st1.sessionWorkspace = st2.sessionWorkspace

\* C18: refresh of a live session leaves every session record, reverse set and
\* forward hash as it was, whatever the durable store holds by then; it changes
\* only the expiry of session:{id} and the value of refreshToken:{id}, which
\* exists afterwards.
C18_RefreshFrame ==
  [][(last'.op = "refresh" /\ last'.wasLive)
       => /\ store'.session = store.session
          /\ SameIndex(store', store)
          /\ \A i \in Ids \ {last'.id} : store'.refreshToken[i] = store.refreshToken[i]
          /\ store'.refreshToken[last'.id] # 0]_vars

\* A refresh of a live session whose record no longer matches what a load of
\* its account returns.
C18_Witness ==
  /\ last.op = "refresh"
  /\ last.wasLive
  /\ last.cookies
  /\ Live(last.id)
  /\ store.session[last.id] # loadSessionData(db, owner[last.id], "none")

\* C19: switchWorkspace changes nothing when no session identifier resolves,
\* and when one resolves whose session:{id} is absent it leaves the record
\* absent, adds id to no reverse set and leaves no forward-hash entry for id.
C19_SwitchNeverCreates ==
  [][last'.op = "switchWorkspace"
       => /\ last'.id = NoId => store' = store
          /\ (last'.id # NoId /\ ~last'.wasLive)
               => /\ ~Exists(store'.session[last'.id])
                  /\ store'.roleSessions = store.roleSessions
                  /\ store'.userSessions = store.userSessions
                  /\ store'.workspaceSessions = store.workspaceSessions
                  /\ store'.sessionRole[last'.id] = NoRole
                  /\ store'.sessionUser[last'.id] = NoRole
                  /\ store'.sessionWorkspace[last'.id] = NoRole]_vars

\* A switchWorkspace whose access credential resolved to a session whose
\* record had lapsed, with its reverse-set members still in the store.
C19_Witness ==
  /\ last.op = "switchWorkspace"
  /\ last.id # NoId
  /\ ~last.wasLive
  /\ ~InNoReverseSet(last.id)
  /\ store.sessionUser[last.id] = NoRole

\* C20: as long as no operation was cut short by a cache-store error, every
\* session whose record exists is a member of the reverse sets named by the
\* roleId, userId and workspaceId of its record, and session:user maps it to
\* its userId.
C20_IndexSound ==
  errors = 0
  => \A i \in Created :
       Live(i)
         => /\ i \in store.roleSessions[store.session[i].roleId]
            /\ i \in store.userSessions[store.session[i].userId]
            /\ i \in store.workspaceSessions[store.session[i].workspaceId]
            /\ store.sessionUser[i] = store.session[i].userId

\* A fan-out that moved a live session to the workspace its account had
\* selected, no operation having been cut short.
C20_Witness ==
  /\ errors = 0
  /\ last.op \in FanOuts
  /\ last.ok
  /\ \E i \in last.members :
       /\ Live(i)
       /\ store.session[i].workspaceId = "w2"
       /\ store.session[i].roleId = "r2"

====
